---- MODULE Spec2Model ----
(***************************************************************************)
(* A model of go-kcl: the Stream handle (NewStream), the seeding of the    *)
(* shard iterators (setInitialIterators), the poll loop (Stream.Listen),   *)
(* the handler goroutines it spawns, and the LocalStore reference store.   *)
(*                                                                         *)
(* Strings are TLA+ strings, except shard iterators ("position tokens"):   *)
(* an iterator is a tuple <<shard, position, serial>> that only the        *)
(* service interprets, and the empty Go string "" (what aws.StringValue    *)
(* makes of a nil pointer, and what a Go map returns for a missing key)    *)
(* is the empty tuple <<>>.                                                *)
(***************************************************************************)
EXTENDS Naturals, Sequences, FiniteSets, TLC

\* ------------------------------------------------------------- bounds
\* GetRecords calls made over the whole run.
MaxFetches == 3
\* Times the process is started again after Listen stopped.
MaxRestarts == 1
\* Records ever put on one shard.
MaxRecords == 1
\* Store calls each worker of the LocalStore makes.
MaxOps == 2

\* ---------------------------------------------------------- constants
IteratorTypeAtSequenceNumber == "AT_SEQUENCE_NUMBER"
IteratorTypeAfterSequenceNumber == "AFTER_SEQUENCE_NUMER"
IteratorTypeAtTimestamp == "AT_TIMESTAMP"
IteratorTypeTrimHorizon == "TRIM_HORIZON"
IteratorTypeLatest == "LATEST"

IteratorTypes ==
    { IteratorTypeAtSequenceNumber, IteratorTypeAfterSequenceNumber,
      IteratorTypeAtTimestamp, IteratorTypeTrimHorizon, IteratorTypeLatest }

\* Config.Limit: the most records one GetRecords request returns.
Limit == 2

\* The stream the handle is built for, and what DescribeStream may answer:
\* an error, or a description with these shard ids.
StreamName == "orders"
ShardIds == { "shard-0", "shard-1" }
DescribeResponses ==
    { [ok |-> FALSE, shards |-> << >>],
      [ok |-> TRUE,  shards |-> << >>],
      [ok |-> TRUE,  shards |-> << "shard-0", "shard-1" >>] }

\* aws.StringValue(nil), and a Go map's value for a missing key.
EmptyString == << >>

Min(a, b) == IF a < b THEN a ELSE b

VARIABLES
    pc,          \* where the main goroutine is
    Shards,      \* Stream.Shards: the shard ids, in the order of the description
    iteratorType,\* Stream.config.IteratorType
    m,           \* the store's map: key -> iterator
    idx,         \* the index of `shard` in the range loop over Stream.Shards
    iterator,    \* Listen's local `iterator`
    resp,        \* the service's last response (`resp`)
    err,         \* what NewStream or Listen returned
    ticks,       \* ticks delivered so far
    restarts,    \* restarts so far
    head,        \* the service: records put on each shard so far
    issued,      \* the service: iterators issued so far
    goroutines,  \* the handler goroutines spawned by `go handler(resp.Records)`
    log,         \* history: the calls made, in order
    workers,     \* the goroutines calling the LocalStore, each in its call
    mutex,       \* LocalStore.mutex: the worker holding it, 0 when free
    written      \* history: the iterator last written for each (stream, shard)

listenVars == << pc, Shards, iteratorType, idx, iterator, resp, err, ticks,
                 restarts, head, issued, goroutines, log >>
storeVars == << workers, mutex, written >>
vars == << listenVars, m, storeVars >>

\* ------------------------------------------------------------ the store
\* LocalStore's key of a (stream, shard) pair.
Key(stream, shard) == stream \o "-" \o shard

\* LocalStore.GetShardIterator: the map's value, "" for a missing key.
MapGet(mm, stream, shard) ==
    IF Key(stream, shard) \in DOMAIN mm THEN mm[Key(stream, shard)] ELSE EmptyString

\* LocalStore.UpdateShardIterator: s.m[key] = iterator.
MapSet(mm, stream, shard, it) ==
    [k \in (DOMAIN mm) \cup { Key(stream, shard) } |->
        IF k = Key(stream, shard) THEN it ELSE mm[k]]

\* The goroutines that call one LocalStore, the (stream, shard) pairs they
\* call it for, and a worker between two calls.
Workers == { 1, 2 }
StorePairs == { << "a-b", "c" >>, << "a", "b-c" >>, << "a", "c" >> }
IdleWorker ==
    [pc |-> "idle", op |-> "", stream |-> "", shard |-> "", it |-> EmptyString,
     ret |-> EmptyString, n |-> 0, snap |-> EmptyString, raced |-> FALSE,
     want |-> EmptyString]

\* ---------------------------------------------------------- the service
NoResp == [ok |-> FALSE, tok |-> EmptyString, recs |-> << >>]

\* kinesis.GetShardIterator for ShardIteratorType `type` and no
\* StartingSequenceNumber or Timestamp: an error, or an iterator at the
\* shard's head (LATEST) or at its oldest record (TRIM_HORIZON).
SvcGetShardIterator(shard, type) ==
    { NoResp } \cup
    ( IF type = "LATEST"
        THEN { [ok |-> TRUE, tok |-> << shard, head[shard], issued + 1 >>, recs |-> << >>] }
      ELSE IF type = "TRIM_HORIZON"
        THEN { [ok |-> TRUE, tok |-> << shard, 0, issued + 1 >>, recs |-> << >>] }
      ELSE { } )

\* The records after position p, k of them.
Batch(p, k) == [j \in 1..k |-> p + j]

\* kinesis.GetRecords: an error (always, for an empty ShardIterator), or up
\* to `limit` of the records after the iterator's position, with a fresh
\* NextShardIterator after them or none (nil, as for a closed shard).
SvcGetRecords(it, limit) ==
    { NoResp } \cup
    ( IF it = EmptyString THEN { }
      ELSE UNION { { [ok |-> TRUE, tok |-> << it[1], it[2] + k, issued + 1 >>,
                      recs |-> Batch(it[2], k)],
                     [ok |-> TRUE, tok |-> EmptyString, recs |-> Batch(it[2], k)] } :
                   k \in 0..Min(limit, head[it[1]] - it[2]) } )

\* ----------------------------------------------------------- the history
Ev(op, shard, arg, r) ==
    [op |-> op, shard |-> shard, arg |-> arg, ok |-> r.ok, tok |-> r.tok,
     recs |-> r.recs, sess |-> restarts, tick |-> ticks]

\* The GetRecords calls made so far.
NumFetches == Cardinality({ j \in DOMAIN log : log[j].op = "fetch" })

OkResp == [ok |-> TRUE, tok |-> EmptyString, recs |-> << >>]

\* -------------------------------------------------------------- Init
Init ==
    /\ pc = "new"
    /\ Shards = << >>
    /\ iteratorType \in IteratorTypes
    /\ m = << >>
    /\ idx = 0
    /\ iterator = EmptyString
    /\ resp = NoResp
    /\ err = "nil"
    /\ ticks = 0
    /\ restarts = 0
    /\ head = [h \in ShardIds |-> 0]
    /\ issued = 0
    /\ goroutines = << >>
    /\ log = << >>
    /\ workers = [w \in Workers |-> IdleWorker]
    /\ mutex = 0
    /\ written = << >>

\* ---------------------------------------------------------- NewStream
\* A NewStream that accepts a stream with no shards.
NewStreamErrorAllowsEmpty(d) == IF ~d.ok THEN "DescribeFailed" ELSE "nil"

\* The error NewStream returns for the answer d of DescribeStream: the
\* call's error, "kcl: stream has 0 shards", or nil.
NewStreamError(d) ==
    IF ~d.ok THEN "DescribeFailed"
    ELSE IF Len(d.shards) = 0 THEN "NoShards"
    ELSE "nil"

NewStream ==
    /\ pc = "new"
    /\ \E d \in DescribeResponses :
         /\ err' = NewStreamError(d)
         /\ IF NewStreamError(d) # "nil"
              THEN /\ pc' = "returned"
                   /\ UNCHANGED Shards
              ELSE /\ pc' = "ready"
                   /\ Shards' = d.shards
         /\ log' = Append(log, Ev("describe", "", EmptyString,
                                   [ok |-> d.ok, tok |-> EmptyString, recs |-> d.shards]))
    /\ UNCHANGED << iteratorType, m, idx, iterator, resp, ticks, restarts,
                    head, issued, goroutines, storeVars >>

\* ------------------------------------------------------------- Listen
\* Listen's entry: the ticker is made and setInitialIterators is called.
StartListen ==
    /\ pc = "ready"
    /\ pc' = "seed"
    /\ idx' = 1
    /\ log' = Append(log, Ev("listen", "", EmptyString, OkResp))
    /\ UNCHANGED << Shards, iteratorType, m, iterator, resp, err, ticks,
                    restarts, head, issued, goroutines, storeVars >>

\* A range loop that visits the shards last to first.
CurrentShardReversed == Shards[Len(Shards) + 1 - idx]

\* The shard of the current iteration of a range loop over s.Shards.
CurrentShard == Shards[idx]

\* A seeding that goes on after a failed GetShardIterator.
AfterSeedIteratorIgnoresError(r) == "seedSet"

\* if err != nil { return err } after GetShardIterator: where seeding goes.
AfterSeedIterator(r) == IF r.ok THEN "seedSet" ELSE "returned"

\* setInitialIterators, one shard: the GetShardIterator call.
SeedGetIterator ==
    /\ pc = "seed"
    /\ \E r \in SvcGetShardIterator(CurrentShard, iteratorType) :
         /\ resp' = r
         /\ issued' = IF r.ok THEN issued + 1 ELSE issued
         /\ pc' = AfterSeedIterator(r)
         /\ err' = IF r.ok THEN err ELSE "IteratorRequestFailed"
         /\ log' = Append(log, Ev("seedIter", CurrentShard, EmptyString, r))
    /\ UNCHANGED << Shards, iteratorType, m, idx, iterator, ticks, restarts,
                    head, goroutines, storeVars >>

\* A seeding that writes every iterator under the first shard.
SeedWriteFirstShard(mm) == MapSet(mm, StreamName, Shards[1], resp.tok)

\* The map after s.store.UpdateShardIterator(s.Name, shard.ID,
\* aws.StringValue(resp.ShardIterator)) has succeeded.
SeedWrite(mm) == MapSet(mm, StreamName, CurrentShard, resp.tok)

\* setInitialIterators, one shard: the store write of the returned iterator;
\* after the last shard setInitialIterators returns nil and the loop waits.
SeedSet ==
    /\ pc = "seedSet"
    /\ \E ok \in BOOLEAN :
         /\ IF ok
              THEN /\ m' = SeedWrite(m)
                   /\ idx' = idx + 1
                   /\ pc' = IF idx = Len(Shards) THEN "wait" ELSE "seed"
                   /\ UNCHANGED err
              ELSE /\ pc' = "returned" /\ err' = "StoreUnavailable"
                   /\ UNCHANGED << m, idx, storeVars >>
         /\ log' = Append(log, Ev("seedSet", CurrentShard, resp.tok,
                                   [ok |-> ok, tok |-> EmptyString, recs |-> << >>]))
    /\ UNCHANGED << Shards, iteratorType, iterator, resp, ticks, restarts,
                    head, issued, goroutines, storeVars >>

\* case <-tick: the range loop over s.Shards starts.
Tick ==
    /\ pc = "wait"
    /\ NumFetches < MaxFetches
    /\ ticks' = ticks + 1
    /\ idx' = 1
    /\ pc' = "read"
    /\ log' = Append(log, [Ev("tick", "", EmptyString, OkResp) EXCEPT !.tick = ticks + 1])
    /\ UNCHANGED << Shards, iteratorType, m, iterator, resp, err, restarts,
                    head, issued, goroutines, storeVars >>

\* What s.store.GetShardIterator(s.Name, shard.ID) returns on success.
StoredIterator(mm) == MapGet(mm, StreamName, CurrentShard)

\* A loop that goes on after a failed store read.
AfterReadIgnoresError(ok) == "fetch"

\* if err != nil { return err } after the store read: where the loop goes.
AfterRead(ok) == IF ok THEN "fetch" ELSE "returned"

\* iterator, err := s.store.GetShardIterator(s.Name, shard.ID)
ReadIterator ==
    /\ pc = "read"
    /\ NumFetches < MaxFetches
    /\ \E ok \in BOOLEAN :
         /\ iterator' = IF ok THEN StoredIterator(m) ELSE iterator
         /\ pc' = AfterRead(ok)
         /\ err' = IF ok THEN err ELSE "StoreUnavailable"
         /\ log' = Append(log, Ev("get", CurrentShard, EmptyString,
                                   [ok |-> ok, tok |-> IF ok THEN iterator' ELSE EmptyString,
                                    recs |-> << >>]))
    /\ UNCHANGED << Shards, iteratorType, m, idx, resp, ticks, restarts,
                    head, issued, goroutines, storeVars >>

\* A loop that goes on after a failed GetRecords.
AfterFetchIgnoresError(r) == "dispatch"

\* if err != nil { return err } after GetRecords: where the loop goes.
AfterFetch(r) == IF r.ok THEN "dispatch" ELSE "returned"

\* resp, err := s.svc.GetRecords(Limit, ShardIterator: iterator)
Fetch ==
    /\ pc = "fetch"
    /\ \E r \in SvcGetRecords(iterator, Limit) :
         /\ resp' = r
         /\ issued' = IF r.ok /\ r.tok # EmptyString THEN issued + 1 ELSE issued
         /\ pc' = AfterFetch(r)
         /\ err' = IF r.ok THEN err ELSE "FetchFailed"
         /\ log' = Append(log, Ev("fetch", CurrentShard, iterator, r))
    /\ UNCHANGED << Shards, iteratorType, m, idx, iterator, ticks, restarts,
                    head, goroutines, storeVars >>

\* A loop that calls the handler only once the earlier handlers are done.
DispatchWaits ==
    /\ pc = "dispatch"
    /\ \A g \in DOMAIN goroutines : goroutines[g].st = "done"
    /\ goroutines' = Append(goroutines,
                            [shard |-> CurrentShard, recs |-> resp.recs, st |-> "spawned",
                             ev |-> Len(log) + 1])
    /\ pc' = "update"
    /\ log' = Append(log, Ev("go", CurrentShard, EmptyString,
                              [ok |-> TRUE, tok |-> EmptyString, recs |-> resp.recs]))
    /\ UNCHANGED << Shards, iteratorType, m, idx, iterator, resp, err, ticks,
                    restarts, head, issued, storeVars >>

\* A loop that calls the handler only for a batch that holds records.
DispatchSkipsEmpty ==
    /\ pc = "dispatch"
    /\ pc' = "update"
    /\ IF Len(resp.recs) = 0
         THEN UNCHANGED << goroutines, log >>
         ELSE /\ goroutines' = Append(goroutines,
                                      [shard |-> CurrentShard, recs |-> resp.recs,
                                       st |-> "spawned", ev |-> Len(log) + 1])
              /\ log' = Append(log, Ev("go", CurrentShard, EmptyString,
                                        [ok |-> TRUE, tok |-> EmptyString, recs |-> resp.recs]))
    /\ UNCHANGED << Shards, iteratorType, m, idx, iterator, resp, err, ticks,
                    restarts, head, issued, storeVars >>

\* go handler(resp.Records): a goroutine is spawned and the loop goes on.
Dispatch ==
    /\ pc = "dispatch"
    /\ goroutines' = Append(goroutines,
                            [shard |-> CurrentShard, recs |-> resp.recs, st |-> "spawned",
                             ev |-> Len(log) + 1])
    /\ pc' = "update"
    /\ log' = Append(log, Ev("go", CurrentShard, EmptyString,
                              [ok |-> TRUE, tok |-> EmptyString, recs |-> resp.recs]))
    /\ UNCHANGED << Shards, iteratorType, m, idx, iterator, resp, err, ticks,
                    restarts, head, issued, storeVars >>

\* A loop that writes back the iterator it has just consumed.
NextIteratorStale(r) == iterator

\* aws.StringValue(resp.NextShardIterator): the iterator the loop writes back.
NextIterator(r) == r.tok

\* A loop that leaves the position alone after an empty batch.
UpdateWriteSkipsEmpty(mm) ==
    IF Len(resp.recs) = 0 THEN mm
    ELSE MapSet(mm, StreamName, CurrentShard, NextIterator(resp))

\* The map after s.store.UpdateShardIterator(s.Name, shard.ID, ...) has
\* succeeded; the write does not look at the batch.
UpdateWrite(mm) == MapSet(mm, StreamName, CurrentShard, NextIterator(resp))

\* A loop that goes on after a failed store write.
AfterUpdateIgnoresError(ok) == IF idx = Len(Shards) THEN "wait" ELSE "read"

\* if err != nil { return err } after the store write: the loop returns, or
\* goes to the next shard, or to the next tick after the last shard.
AfterUpdate(ok) ==
    IF ~ok THEN "returned"
    ELSE IF idx = Len(Shards) THEN "wait" ELSE "read"

\* err = s.store.UpdateShardIterator(s.Name, shard.ID, NextShardIterator);
\* then the next shard, or the next tick after the last one.
Update ==
    /\ pc = "update"
    /\ \E ok \in BOOLEAN :
         /\ pc' = AfterUpdate(ok)
         /\ IF ok
              THEN /\ m' = UpdateWrite(m)
                   /\ idx' = idx + 1
                   /\ UNCHANGED err
              ELSE /\ err' = "StoreUnavailable"
                   /\ UNCHANGED << m, idx >>
         /\ log' = Append(log, Ev("set", CurrentShard, NextIterator(resp),
                                   [ok |-> ok, tok |-> EmptyString, recs |-> << >>]))
    /\ UNCHANGED << Shards, iteratorType, iterator, resp, ticks, restarts,
                    head, issued, goroutines, storeVars >>

\* ------------------------------------------------- handler goroutines
\* A runtime that enters the handlers one at a time, in dispatch order.
HandlerStartInOrder(g) ==
    /\ g \in DOMAIN goroutines
    /\ goroutines[g].st = "spawned"
    /\ \A k \in 1 .. (g - 1) : goroutines[k].st = "done"
    /\ goroutines' = [goroutines EXCEPT ![g].st = "running"]
    /\ UNCHANGED << pc, Shards, iteratorType, m, idx, iterator, resp, err,
                    ticks, restarts, head, issued, log, storeVars >>

\* Goroutine g, spawned by go handler(...), is scheduled: the handler is
\* entered with its batch, whatever the loop and the other handlers do.
HandlerStartOf(g) ==
    /\ g \in DOMAIN goroutines
    /\ goroutines[g].st = "spawned"
    /\ goroutines' = [goroutines EXCEPT ![g].st = "running"]
    /\ UNCHANGED << pc, Shards, iteratorType, m, idx, iterator, resp, err,
                    ticks, restarts, head, issued, log, storeVars >>

HandlerStart == \E g \in DOMAIN goroutines : HandlerStartOf(g)

\* The handler returns; whatever it returns or panics with is not observed.
HandlerReturn ==
    \E g \in DOMAIN goroutines :
      /\ goroutines[g].st = "running"
      /\ goroutines' = [goroutines EXCEPT ![g].st = "done"]
      /\ UNCHANGED << pc, Shards, iteratorType, m, idx, iterator, resp, err,
                      ticks, restarts, head, issued, log, storeVars >>

\* ------------------------------------------------------ the environment
\* A producer puts a record on a shard. Producers run at any time, but only
\* the order of a put and a service call can be observed: the puts are taken
\* right before the GetShardIterator or GetRecords call that may see them.
Produce ==
    \E h \in ShardIds :
      /\ pc \in { "seed", "fetch" }
      /\ h = CurrentShard
      /\ head[h] < MaxRecords
      /\ head' = [head EXCEPT ![h] = head[h] + 1]
      /\ UNCHANGED << pc, Shards, iteratorType, m, idx, iterator, resp, err,
                      ticks, restarts, issued, goroutines, log, storeVars >>

\* The process stops (a crash, a kill, or main's panic on Listen's error):
\* its goroutines die with it; the store, being durable, keeps its entries.
Crash ==
    /\ pc \notin { "new", "stopped" }
    /\ pc' = "stopped"
    /\ goroutines' =
         [g \in DOMAIN goroutines |->
            [goroutines[g] EXCEPT !.st =
                IF @ = "spawned" THEN "lost"
                ELSE IF @ = "running" THEN "killed" ELSE @]]
    /\ log' = Append(log, Ev("crash", "", EmptyString, OkResp))
    /\ UNCHANGED << Shards, iteratorType, m, idx, iterator, resp, err, ticks,
                    restarts, head, issued, storeVars >>

\* The process is started again on the same store: main builds a new
\* Stream handle and calls Listen.
Restart ==
    /\ pc = "stopped"
    /\ restarts < MaxRestarts
    /\ restarts' = restarts + 1
    /\ pc' = "new"
    /\ Shards' = << >>
    /\ idx' = 0
    /\ iterator' = EmptyString
    /\ resp' = NoResp
    /\ err' = "nil"
    /\ UNCHANGED << iteratorType, m, ticks, head, issued, goroutines, log, storeVars >>

Next ==
    \/ NewStream
    \/ StartListen
    \/ SeedGetIterator
    \/ SeedSet
    \/ Tick
    \/ ReadIterator
    \/ Fetch
    \/ Dispatch
    \/ Update
    \/ HandlerStart
    \/ HandlerReturn
    \/ Produce

\* One life of the process: NewStream, Listen and the handlers it spawns.
Spec == Init /\ [][Next]_vars

\* The steps of the main goroutine (NewStream, then Listen's loop).
Loop ==
    \/ NewStream
    \/ StartListen
    \/ SeedGetIterator
    \/ SeedSet
    \/ Tick
    \/ ReadIterator
    \/ Fetch
    \/ Dispatch
    \/ Update

\* The same, with the main goroutine scheduled fairly and the ticker firing;
\* nothing is assumed of the handlers, which may never start or never return.
FairSpec == Init /\ [][Next]_vars /\ WF_vars(Loop)

RestartNext ==
    \/ Next
    \/ Crash
    \/ Restart

\* The process may stop at any point and be started again on the same store.
RestartSpec == Init /\ [][RestartNext]_vars

\* --------------------------------------------------------- LocalStore
\* A worker calls UpdateShardIterator or GetShardIterator for some pair; the
\* iterator it writes is its own: << worker, number of the call >>.
Call(w) ==
    /\ workers[w].pc = "idle"
    /\ workers[w].n < MaxOps
    /\ \E op \in { "Update", "Get" }, p \in StorePairs :
         workers' = [workers EXCEPT ![w] =
            [@ EXCEPT !.pc = IF op = "Update" THEN "lock" ELSE "read",
                      !.op = op, !.stream = p[1], !.shard = p[2],
                      !.it = IF op = "Update" THEN << w, workers[w].n + 1 >> ELSE EmptyString,
                      !.ret = EmptyString, !.n = @ + 1, !.raced = FALSE,
                      !.snap = EmptyString, !.want = EmptyString]]
    /\ UNCHANGED << listenVars, m, mutex, written >>

\* UpdateShardIterator: s.mutex.Lock()
Lock(w) ==
    /\ workers[w].pc = "lock"
    /\ mutex = 0
    /\ mutex' = w
    /\ workers' = [workers EXCEPT ![w].pc = "write"]
    /\ UNCHANGED << listenVars, m, written >>

\* UpdateShardIterator: s.m[key] = iterator begins; a map read that another
\* goroutine has under way now races with it.
WriteBegin(w) ==
    /\ workers[w].pc = "write"
    /\ workers' = [v \in Workers |->
                     IF v = w THEN [workers[v] EXCEPT !.pc = "writing"]
                     ELSE IF workers[v].pc = "reading"
                       THEN [workers[v] EXCEPT !.raced = TRUE]
                     ELSE workers[v]]
    /\ UNCHANGED << listenVars, m, mutex, written >>

\* UpdateShardIterator: s.m[key] = iterator is done.
WriteEnd(w) ==
    /\ workers[w].pc = "writing"
    /\ m' = MapSet(m, workers[w].stream, workers[w].shard, workers[w].it)
    /\ written' = [p \in (DOMAIN written) \cup { << workers[w].stream, workers[w].shard >> } |->
                     IF p = << workers[w].stream, workers[w].shard >>
                       THEN workers[w].it ELSE written[p]]
    /\ workers' = [workers EXCEPT ![w].pc = "unlock"]
    /\ UNCHANGED << listenVars, mutex >>

\* UpdateShardIterator: return nil, and the deferred s.mutex.Unlock().
Unlock(w) ==
    /\ workers[w].pc = "unlock"
    /\ mutex' = 0
    /\ workers' = [workers EXCEPT ![w].pc = "idle"]
    /\ UNCHANGED << listenVars, m, written >>

\* GetShardIterator: the read of s.m[key] begins, with no lock taken.
ReadBegin(w) ==
    /\ workers[w].pc = "read"
    /\ workers' = [workers EXCEPT ![w] =
          [@ EXCEPT !.pc = "reading",
                    !.snap = MapGet(m, workers[w].stream, workers[w].shard),
                    !.raced = \E v \in Workers : workers[v].pc = "writing"]]
    /\ UNCHANGED << listenVars, m, mutex, written >>

\* History: the iterator last written for the pair of worker w's call, ""
\* when the pair was never written.
LastWritten(w) ==
    IF << workers[w].stream, workers[w].shard >> \in DOMAIN written
      THEN written[<< workers[w].stream, workers[w].shard >>]
      ELSE EmptyString

\* GetShardIterator: the read is done and its value returned with a nil
\* error. A read that raced with a map write is a data race: the read may
\* see the map before or after the write, or the runtime may stop the
\* process ("fatal error: concurrent map read and map write").
ReadEnd(w) ==
    /\ workers[w].pc = "reading"
    /\ \/ \E v \in { workers[w].snap, MapGet(m, workers[w].stream, workers[w].shard) } :
            workers' = [workers EXCEPT ![w] =
                [@ EXCEPT !.pc = "idle", !.ret = v, !.want = LastWritten(w)]]
       \/ /\ workers[w].raced
          /\ workers' = [v \in Workers |-> [workers[v] EXCEPT !.pc = "fatal"]]
    /\ UNCHANGED << listenVars, m, mutex, written >>

StoreNext ==
    \E w \in Workers :
        \/ Call(w)
        \/ Lock(w)
        \/ WriteBegin(w)
        \/ WriteEnd(w)
        \/ Unlock(w)
        \/ ReadBegin(w)
        \/ ReadEnd(w)

\* A LocalStore fresh from NewLocalStore, called by the workers.
StoreInit == Init /\ iteratorType = IteratorTypeLatest

StoreSpec == StoreInit /\ [][StoreNext]_vars

\* ------------------------------------------------------------- claims
Range(f) == { f[x] : x \in DOMAIN f }
Last(S) == IF S = { } THEN 0 ELSE CHOOSE i \in S : \A k \in S : k <= i

\* The last successful store write (seeding or loop) for shard h before
\* event j, and the last GetRecords call for h before j; 0 when none.
LastWrite(j, h) ==
    Last({ i \in 1..(j - 1) : log[i].op \in { "set", "seedSet" } /\ log[i].shard = h /\ log[i].ok })
LastFetch(j, h) ==
    Last({ i \in 1..(j - 1) : log[i].op = "fetch" /\ log[i].shard = h })

PositionOf(it) == IF it = EmptyString THEN 0 ELSE it[2] + 1

\* C2: in a session started on a store that holds a position for a shard,
\* the first GetRecords call for that shard reads from the stored position.
C2_RestartResumes ==
    \A j \in DOMAIN log :
        ( /\ log[j].op = "fetch"
          /\ log[j].sess > 0
          /\ ~ \E i \in 1..(j - 1) :
                 log[i].op = "fetch" /\ log[i].shard = log[j].shard /\ log[i].sess = log[j].sess )
        => LET l == Last({ i \in 1..j : log[i].op = "listen" })
               w == LastWrite(l, log[j].shard)
           IN  w > 0 => PositionOf(log[j].arg) = PositionOf(log[w].arg)

\* C3: GetRecords is never called with an empty iterator.
C3_NeverFetchesEmpty ==
    \A j \in DOMAIN log : log[j].op = "fetch" => log[j].arg # EmptyString

\* The position of shard h in Stream.Shards.
ShardIndex(h) == CHOOSE i \in DOMAIN Shards : Shards[i] = h

\* C4: a failed GetRecords for shard S on tick T is the last thing the run
\* does: no position write and no dispatch for S on T, the stored position
\* of S is still the one read for the fetch, nothing is done for the shards
\* after S, and Listen has returned the fetch error.
C4_FetchFailureStops ==
    \A j \in DOMAIN log :
        (log[j].op = "fetch" /\ ~log[j].ok) =>
            /\ j = Len(log)
            /\ pc = "returned" /\ err = "FetchFailed"
            /\ ~ \E i \in DOMAIN log :
                   /\ log[i].op \in { "set", "go" }
                   /\ log[i].shard = log[j].shard /\ log[i].tick = log[j].tick
            /\ MapGet(m, StreamName, log[j].shard) = log[j].arg
            /\ ~ \E i \in DOMAIN log :
                   /\ log[i].op \in { "get", "fetch", "go", "set" }
                   /\ log[i].tick = log[j].tick
                   /\ ShardIndex(log[i].shard) > ShardIndex(log[j].shard)
            /\ Len(goroutines) = Cardinality({ i \in DOMAIN log : log[i].op = "go" })

\* GetRecords failed for a shard that is not the last one, with a real iterator.
C4_Witness ==
    \E j \in DOMAIN log :
        /\ log[j].op = "fetch" /\ ~log[j].ok /\ log[j].arg # EmptyString
        /\ ShardIndex(log[j].shard) < Len(Shards)

\* setInitialIterators has just returned nil.
SeedingDone ==
    /\ pc = "wait"
    /\ Len(log) > 0
    /\ log[Len(log)].op = "seedSet" /\ log[Len(log)].ok

\* C5: when setInitialIterators has returned without error, the store holds
\* one entry for each shard and no other, and the entry of a shard is the
\* iterator that shard's own GetShardIterator call returned.
C5_SeedingStoresOwnIterator ==
    SeedingDone =>
        /\ \A i \in DOMAIN Shards :
             /\ Key(StreamName, Shards[i]) \in DOMAIN m
             /\ \E j \in DOMAIN log :
                  /\ log[j].op = "seedIter" /\ log[j].ok
                  /\ log[j].shard = Shards[i]
                  /\ m[Key(StreamName, Shards[i])] = log[j].tok
             /\ m[Key(StreamName, Shards[i])][1] = Shards[i]
        /\ Cardinality(DOMAIN m) = Len(Shards)

\* Seeding is done for a stream of two shards.
C5_Witness == SeedingDone /\ Len(Shards) = 2

\* C6: a successful GetRecords is followed by the dispatch and then by the
\* store write of the returned next iterator for that shard, whatever the
\* size of the batch; the next iterator differs from the one consumed, and
\* once written it is the stored position.
C6_EveryFetchAdvances ==
    \A j \in DOMAIN log :
        (log[j].op = "fetch" /\ log[j].ok) =>
            /\ log[j].tok # log[j].arg
            /\ j = Len(log) => pc = "dispatch"
            /\ j + 1 <= Len(log) =>
                 /\ log[j + 1].op = "go"
                 /\ log[j + 1].shard = log[j].shard
                 /\ log[j + 1].recs = log[j].recs
            /\ j + 1 = Len(log) => pc = "update"
            /\ j + 2 <= Len(log) =>
                 /\ log[j + 2].op = "set"
                 /\ log[j + 2].shard = log[j].shard
                 /\ log[j + 2].arg = log[j].tok
            /\ (j + 2 = Len(log) /\ log[j + 2].ok) =>
                 /\ MapGet(m, StreamName, log[j].shard) = log[j].tok
                 /\ MapGet(m, StreamName, log[j].shard) # log[j].arg

\* An empty batch was fetched and the position has just been written.
C6_Witness ==
    \E j \in DOMAIN log :
        /\ log[j].op = "fetch" /\ log[j].ok /\ Len(log[j].recs) = 0
        /\ log[j].tok # EmptyString
        /\ j + 2 = Len(log) /\ log[j + 2].ok

\* Whether the run may still call GetRecords.
Budget == NumFetches < MaxFetches

\* The loop has returned an error or has used up the run's GetRecords calls.
LoopDone == pc = "returned" \/ (pc \in { "wait", "read" } /\ ~Budget)

StartedRecords(h) ==
    UNION { Range(goroutines[g].recs) :
              g \in { x \in DOMAIN goroutines :
                        /\ goroutines[x].shard = h
                        /\ goroutines[x].st \in { "running", "done", "killed" } } }

\* The stored position was written past the batch of goroutine g.
Advanced(g) ==
    /\ goroutines[g].ev + 1 <= Len(log)
    /\ log[goroutines[g].ev + 1].op = "set"
    /\ log[goroutines[g].ev + 1].ok
    /\ log[goroutines[g].ev + 1].arg # EmptyString

\* C8: when a later session fetches a shard from a position past a batch
\* that an earlier session fetched and advanced the store past, every
\* record of the batch has been handed to a handler invocation that started.
C8_AtLeastOnce ==
    \A g \in DOMAIN goroutines : \A j \in DOMAIN log :
        ( /\ Advanced(g)
          /\ log[j].op = "fetch"
          /\ log[j].shard = goroutines[g].shard
          /\ log[j].sess > log[goroutines[g].ev].sess
          /\ log[j].arg # EmptyString )
        => \A r \in Range(goroutines[g].recs) :
              log[j].arg[2] >= r => r \in StartedRecords(goroutines[g].shard)

\* No worker is inside a LocalStore call.
Quiet == \A w \in Workers : workers[w].pc = "idle"

\* C9: once the calls have returned, for any two different pairs that two
\* different workers wrote, GetShardIterator gives for each pair the
\* iterator last written for that pair.
C9_PairsIndependent ==
    Quiet =>
        \A p, q \in DOMAIN written :
            (p # q /\ written[p][1] # written[q][1]) =>
                /\ MapGet(m, p[1], p[2]) = written[p]
                /\ MapGet(m, q[1], q[2]) = written[q]

\* C10: no map write of the LocalStore runs at the same time as a map read
\* or another map write.
C10_NoConcurrentMapAccess ==
    \A v, w \in Workers :
        (v # w /\ workers[v].pc = "writing") => workers[w].pc \notin { "reading", "writing" }

\* C11: a GetShardIterator call that raced with no write returns the
\* iterator last written for its pair by UpdateShardIterator, and the empty
\* string when the pair was never written.
C11_RoundTrip ==
    \A w \in Workers :
        (workers[w].pc = "idle" /\ workers[w].op = "Get" /\ ~workers[w].raced)
            => workers[w].ret = workers[w].want

\* C12: when NewStream has returned, the store has not been written; when
\* DescribeStream failed or reported no shard, NewStream returned no Stream
\* and an error, and otherwise the Stream with the described shards.
C12_NewStreamFailsWithoutWrites ==
    (Len(log) > 0 /\ log[Len(log)].op = "describe") =>
        /\ m = << >>
        /\ ~ \E i \in DOMAIN log : log[i].op \in { "set", "seedSet" }
        /\ IF ~log[Len(log)].ok \/ Len(log[Len(log)].recs) = 0
             THEN pc = "returned" /\ err # "nil" /\ Shards = << >>
             ELSE pc = "ready" /\ err = "nil" /\ Shards = log[Len(log)].recs

\* NewStream has returned an error for a stream with no shards.
C12_Witness ==
    /\ Len(log) > 0 /\ log[Len(log)].op = "describe"
    /\ log[Len(log)].ok /\ Len(log[Len(log)].recs) = 0
    /\ err = "NoShards"

\* C13: a GetShardIterator call or store write that fails for the i-th
\* shard during seeding is the last thing the run does: Listen has returned
\* that error, no GetRecords call and no dispatch was made, the shards
\* before i hold the iterators they were seeded with and the i-th and later
\* shards have no entry (the store was empty before).
C13_SeedingFailureIsFatal ==
    \A j \in DOMAIN log :
        (log[j].op \in { "seedIter", "seedSet" } /\ ~log[j].ok) =>
            /\ j = Len(log)
            /\ pc = "returned"
            /\ err = IF log[j].op = "seedIter" THEN "IteratorRequestFailed"
                     ELSE "StoreUnavailable"
            /\ ~ \E i \in DOMAIN log : log[i].op \in { "get", "fetch", "go", "set", "tick" }
            /\ goroutines = << >>
            /\ \A k \in DOMAIN Shards :
                 IF k < ShardIndex(log[j].shard)
                   THEN \E i \in DOMAIN log :
                          /\ log[i].op = "seedIter" /\ log[i].ok
                          /\ log[i].shard = Shards[k]
                          /\ MapGet(m, StreamName, Shards[k]) = log[i].tok
                          /\ log[i].tok # EmptyString
                   ELSE Key(StreamName, Shards[k]) \notin DOMAIN m

\* Seeding failed at the second shard, after the first was seeded.
C13_Witness ==
    \E j \in DOMAIN log :
        /\ log[j].op \in { "seedIter", "seedSet" } /\ ~log[j].ok
        /\ ShardIndex(log[j].shard) = 2

\* The steps of Listen that can fail, and the error Listen returns for each.
StepOps == { "seedIter", "seedSet", "get", "fetch", "set" }
Failed(j) == log[j].op \in StepOps /\ ~log[j].ok
ErrorOf(e) ==
    IF e.op = "seedIter" THEN "IteratorRequestFailed"
    ELSE IF e.op = "fetch" THEN "FetchFailed"
    ELSE "StoreUnavailable"

\* C14: once Listen is called, it has returned exactly when a seeding,
\* store-read, fetch or store-write step has failed; that failed step is the
\* last call of the run and its error is the one returned; and every tick
\* that was completed has written the position of every shard.
C14_ListenStopsOnFirstError ==
    (\E i \in DOMAIN log : log[i].op = "listen") =>
        /\ (pc = "returned") <=> (\E j \in DOMAIN log : Failed(j))
        /\ \A j \in DOMAIN log : Failed(j) => (j = Len(log) /\ err = ErrorOf(log[j]))
        /\ (~ \E j \in DOMAIN log : Failed(j)) => err = "nil"
        /\ \A t \in 1 .. ticks :
             (t < ticks \/ pc = "wait") =>
                 \A k \in DOMAIN Shards :
                     \E i \in DOMAIN log :
                         /\ log[i].op = "set" /\ log[i].ok
                         /\ log[i].tick = t /\ log[i].shard = Shards[k]

\* Listen has returned on a step that failed in the second tick.
C14_Witness ==
    /\ pc = "returned"
    /\ \E j \in DOMAIN log : Failed(j) /\ log[j].tick = 2

\* C15: every dispatch directly follows a successful GetRecords call for the
\* same shard and passes its records; every successful GetRecords call is
\* directly followed by its dispatch; each dispatch spawned one goroutine
\* holding those records; so the dispatches are as many as the successful
\* fetches (less the one whose dispatch is the next step).
C15_OneDispatchPerFetch ==
    LET Gos == { j \in DOMAIN log : log[j].op = "go" }
        Fetched == { j \in DOMAIN log : log[j].op = "fetch" /\ log[j].ok }
    IN  /\ \A j \in Gos :
             /\ j - 1 \in Fetched
             /\ log[j].shard = log[j - 1].shard
             /\ log[j].recs = log[j - 1].recs
        /\ \A j \in Fetched :
             IF j = Len(log) THEN pc = "dispatch" ELSE j + 1 \in Gos
        /\ Len(goroutines) = Cardinality(Gos)
        /\ \A g \in DOMAIN goroutines :
             /\ goroutines[g].ev \in Gos
             /\ goroutines[g].recs = log[goroutines[g].ev].recs
             /\ goroutines[g].shard = log[goroutines[g].ev].shard
             /\ \A k \in DOMAIN goroutines : k < g => goroutines[k].ev < goroutines[g].ev
        /\ Cardinality(Gos) = Cardinality(Fetched) - (IF pc = "dispatch" THEN 1 ELSE 0)

\* One tick has dispatched a batch with a record for one shard and an empty
\* batch for another.
C15_Witness ==
    \E g, k \in DOMAIN goroutines :
        /\ Len(goroutines[g].recs) > 0
        /\ Len(goroutines[k].recs) = 0
        /\ goroutines[g].shard # goroutines[k].shard
        /\ log[goroutines[g].ev].tick = log[goroutines[k].ev].tick

\* C16: the calls of the loop come one after the other in a fixed order: a
\* tick begins after the last shard of the tick before (or of the seeding)
\* was written; a store read is for the first shard right after the tick, or
\* for the shard next to the one just written; the GetRecords call follows
\* the read, the dispatch the call, and the write the dispatch, all for the
\* same shard in the same tick.
C16_LoopIsSequential ==
    \A j \in DOMAIN log :
        log[j].op \in { "tick", "get", "fetch", "go", "set" } =>
            /\ j > 1
            /\ LET e == log[j]
                   p == log[j - 1]
               IN  IF e.op = "tick"
                     THEN /\ e.tick = p.tick + 1
                          /\ p.op = (IF e.tick = 1 THEN "seedSet" ELSE "set")
                          /\ p.ok
                          /\ p.shard = Shards[Len(Shards)]
                   ELSE IF e.op = "get"
                     THEN /\ e.tick = p.tick
                          /\ \/ p.op = "tick" /\ e.shard = Shards[1]
                             \/ /\ p.op = "set" /\ p.ok
                                /\ ShardIndex(p.shard) < Len(Shards)
                                /\ e.shard = Shards[ShardIndex(p.shard) + 1]
                   ELSE /\ e.tick = p.tick
                        /\ e.shard = p.shard
                        /\ p.ok
                        /\ p.op = (IF e.op = "fetch" THEN "get"
                                   ELSE IF e.op = "go" THEN "fetch" ELSE "go")

\* The second tick has read the first shard's position after the first tick
\* wrote both shards.
C16_Witness ==
    \E j \in DOMAIN log :
        /\ log[j].op = "get" /\ log[j].tick = 2
        /\ Len(Shards) = 2

\* C17: after a GetRecords call that succeeded without a NextShardIterator,
\* Listen returns an error: it makes no successful position write any more,
\* so it never stores the empty position.
C17_AbsentTokenIsError ==
    \A j \in DOMAIN log :
        (log[j].op = "fetch" /\ log[j].ok /\ log[j].tok = EmptyString) =>
            \A i \in DOMAIN log :
                i > j => ~(log[i].op = "set" /\ log[i].ok /\ log[i].sess = log[j].sess)

\* The ShardIteratorType values of the service, as the README lists them.
ServicePolicies ==
    { "AT_SEQUENCE_NUMBER", "AFTER_SEQUENCE_NUMBER", "AT_TIMESTAMP",
      "TRIM_HORIZON", "LATEST" }

\* C18: every GetShardIterator request of the seeding carries the configured
\* IteratorType, and that value, one of the five exported constants, is one
\* of the five ShardIteratorType values of the service.
C18_PolicyPassedThrough ==
    \A j \in DOMAIN log :
        log[j].op = "seedIter" =>
            /\ iteratorType \in IteratorTypes
            /\ iteratorType \in ServicePolicies

C20_DispatchBeforeWrite ==
    \A j \in DOMAIN log :
        (log[j].op = "set" /\ ~log[j].ok) =>
            /\ j = Len(log)
            /\ pc = "returned"
            /\ err = "StoreUnavailable"
            /\ j > 2
            /\ log[j - 1].op = "go" /\ log[j - 1].shard = log[j].shard
            /\ log[j - 2].op = "fetch" /\ log[j - 2].ok
            /\ log[j - 2].shard = log[j].shard
            /\ \E g \in DOMAIN goroutines :
                 /\ goroutines[g].ev = j - 1
                 /\ goroutines[g].recs = log[j - 2].recs
            /\ MapGet(m, StreamName, log[j].shard) = log[j - 2].arg
            /\ \E r \in SvcGetRecords(MapGet(m, StreamName, log[j].shard), Limit) :
                 r.ok /\ r.recs = log[j - 2].recs

\* A position write failed after a batch that holds a record was dispatched.
C20_Witness ==
    \E j \in DOMAIN log :
        /\ log[j].op = "set" /\ ~log[j].ok
        /\ Len(log[j - 1].recs) > 0

====
